---- MODULE Spec2Model ----
(***************************************************************************)
(* State machine of state/state.go (State, Copy, ExecTx, AppendBlock).     *)
(* A State object holds its block tail by value and its two validator      *)
(* sets and two merkle trees by reference; the referenced objects live in  *)
(* `heap`.                                                                 *)
(***************************************************************************)
EXTENDS Integers, Sequences, FiniteSets, TLC

\* ------------------------------------------------------------------------
\* Bounds of the model
\* ------------------------------------------------------------------------

\* Width in bits of the unsigned integers holding amounts, balances, totals
\* and voting power (uint64 in the source, scaled down).
UintBits == 3

\* Blocks are appended while LastBlockHeight < MaxHeight.
MaxHeight == 3

\* Largest sequence number a transaction input carries.
MaxSeq == 2

\* Calls made on one copy of the State before it is dropped.
MaxCalls == 2

\* ------------------------------------------------------------------------
\* Program constants (state.go:17-23)
\* ------------------------------------------------------------------------

\* uint(60 * 24 * 365) in the source; scaled down so that an unbonding
\* period ends within MaxHeight blocks.
unbondingPeriodBlocks == 1

\* uint(10) in the source; scaled down so that a validator times out within
\* MaxHeight blocks.
validatorTimeoutBlocks == 2

\* ------------------------------------------------------------------------
\* Integers of fixed width
\* ------------------------------------------------------------------------

RECURSIVE Pow2(_)
Pow2(n) == IF n = 0 THEN 1 ELSE 2 * Pow2(n - 1)

UintMod == Pow2(UintBits)

Half == UintMod \div 2

\* a + b, a - b, a * b in uint64 arithmetic
UAdd(a, b) == (a + b) % UintMod

USub(a, b) == (a - b + UintMod) % UintMod

UMul(a, b) == (a * b) % UintMod

\* ------------------------------------------------------------------------
\* Addresses, keys, signatures
\* ------------------------------------------------------------------------

\* Well-formed (20 byte) addresses; BadAddr stands for a byte string of
\* another length.
Addrs == {1, 2, 3}

BadAddr == 0

\* account.PubKeyNil
PubKeyNil == 0

\* PubKey.Address(): key k belongs to address k; PubKeyNil has no address.
Address(pubKey) == IF pubKey = PubKeyNil THEN BadAddr ELSE pubKey

\* PubKey.ValidateBasic()
PubKeyValidateBasic(pubKey) == pubKey # PubKeyNil

\* A signature is the pair of the signing key and the bytes signed; the
\* zero signature has key 0.
Sign(key, bytes) == [key |-> key, bytes |-> bytes]

\* PubKey.VerifyBytes(msg, sig); PubKeyNil verifies nothing.
VerifyBytes(pubKey, msg, sig) ==
    /\ pubKey # PubKeyNil
    /\ sig.key = pubKey
    /\ sig.bytes = msg

\* ------------------------------------------------------------------------
\* ValidatorSet: validators sorted by address, as a sequence
\* ------------------------------------------------------------------------

\* The validator as BondTx creates it (state.go:302-308); the fields BondTx
\* does not name are zero.
NewValidator(pubKey, bondHeight, votingPower) ==
    [Address |-> Address(pubKey), PubKey |-> pubKey, BondHeight |-> bondHeight,
     UnbondHeight |-> 0, LastCommitHeight |-> 0, VotingPower |-> votingPower,
     Accum |-> 0]

ValSetAddrs(vs) == {vs[i].Address : i \in 1..Len(vs)}

\* ValidatorSet.HasAddress
ValSetHas(vs, addr) == addr \in ValSetAddrs(vs)

\* ValidatorSet.GetByAddress (only called here for an address in the set)
ValSetGetByAddress(vs, addr) ==
    vs[CHOOSE i \in 1..Len(vs) : vs[i].Address = addr]

\* ValidatorSet.Add of a validator whose address is not in the set: the
\* sequence stays sorted by address.
ValSetAdd(vs, val) ==
    LET lower == SelectSeq(vs, LAMBDA v : v.Address < val.Address)
        upper == SelectSeq(vs, LAMBDA v : v.Address > val.Address)
    IN  lower \o <<val>> \o upper

\* ValidatorSet.Remove
ValSetRemove(vs, addr) == SelectSeq(vs, LAMBDA v : v.Address # addr)

\* ValidatorSet.Update: replaces in place the validator of that address
ValSetUpdate(vs, val) ==
    [i \in 1..Len(vs) |-> IF vs[i].Address = val.Address THEN val ELSE vs[i]]

RECURSIVE SumVotingPower(_, _)
SumVotingPower(vs, i) ==
    IF i > Len(vs) THEN 0 ELSE UAdd(vs[i].VotingPower, SumVotingPower(vs, i + 1))

\* ValidatorSet.TotalVotingPower: the uint64 sum of the voting powers
TotalVotingPower(vs) == SumVotingPower(vs, 1)

\* ValidatorSet.IncrementAccum(1): every validator gains its voting power;
\* the one with the largest accum (the lowest address among equals) loses
\* the total voting power.
IncrementAccum(vs) ==
    LET added == [i \in 1..Len(vs) |->
                    [vs[i] EXCEPT !.Accum = vs[i].Accum + vs[i].VotingPower]]
        most == CHOOSE i \in 1..Len(vs) :
                    \A j \in 1..Len(vs) :
                        \/ added[j].Accum < added[i].Accum
                        \/ (added[j].Accum = added[i].Accum /\ i <= j)
    IN  IF Len(vs) = 0 THEN vs
        ELSE [added EXCEPT ![most].Accum =
                               added[most].Accum - TotalVotingPower(vs)]

\* ------------------------------------------------------------------------
\* Transactions, votes and their sign bytes
\* ------------------------------------------------------------------------

VoteTypePrevote == "Prevote"

VoteTypePrecommit == "Precommit"

VoteTypeCommit == "Commit"

\* account.SignBytes of a vote: every field but the signature
VoteSignBytes(vote) ==
    [Height |-> vote.Height, Round |-> vote.Round, Type |-> vote.Type,
     BlockHash |-> vote.BlockHash, BlockParts |-> vote.BlockParts]

InputSignBytes(ins) ==
    [i \in 1..Len(ins) |->
        [Address |-> ins[i].Address, Amount |-> ins[i].Amount,
         Sequence |-> ins[i].Sequence, PubKey |-> ins[i].PubKey]]

\* account.SignBytes of a transaction: its encoding without the signatures,
\* with the inputs' pub_key fields as they stand when it is called.
SignBytes(tx) ==
    CASE tx.type = "SendTx" ->
            [type |-> "SendTx", Inputs |-> InputSignBytes(tx.Inputs),
             Outputs |-> tx.Outputs]
      [] tx.type = "BondTx" ->
            [type |-> "BondTx", PubKey |-> tx.PubKey,
             Inputs |-> InputSignBytes(tx.Inputs), UnbondTo |-> tx.UnbondTo]
      [] OTHER ->
            [type |-> tx.type, Address |-> tx.Address, Height |-> tx.Height]

\* TxInput.ValidateBasic / TxOutput.ValidateBasic: the basic shape check
IOValidateBasic(io) == io.Address # BadAddr

\* ------------------------------------------------------------------------
\* Account management
\* ------------------------------------------------------------------------

ErrNil == "nil"

Panics == {"panic: Failed to add validator",
           "panic: nil pointer dereference",
           "panic: Couldn't remove validator for unbonding",
           "panic: Couldn't add validator for unbonding",
           "panic: Couldn't remove validator for rebonding",
           "panic: Couldn't add validator for rebonding",
           "panic: Couldn't find validatorInfo for release",
           "panic: Couldn't get or make unbondTo accounts",
           "panic: Couldn't remove validator for release",
           "panic: Couldn't remove validator for destruction",
           "panic: Failed to fetch validator at index",
           "panic: Cannot overwrite block_.StateHash"}

IsPanic(err) == err \in Panics

\* The input loop of GetOrMakeAccounts from input i on; r carries the error,
\* the accounts map and the inputs, whose PubKey the loop clears.
RECURSIVE GetInputAccounts(_, _, _)
GetInputAccounts(tree, i, r) ==
    IF i > Len(r.ins) \/ r.err # ErrNil THEN r
    ELSE LET in == r.ins[i]
             acc == tree[in.Address]
         IN  IF in.Address \in DOMAIN r.accounts
                 THEN [r EXCEPT !.err = "ErrTxDuplicateAddress"]
             ELSE IF in.Address \notin DOMAIN tree
                 THEN [r EXCEPT !.err = "ErrTxInvalidAddress"]
             ELSE IF acc.PubKey = PubKeyNil
                 THEN IF in.PubKey = PubKeyNil
                          THEN [r EXCEPT !.err = "ErrTxUnknownPubKey"]
                      ELSE IF Address(in.PubKey) # acc.Address
                          THEN [r EXCEPT !.err = "ErrTxInvalidPubKey"]
                      ELSE GetInputAccounts(tree, i + 1,
                              [r EXCEPT !.accounts =
                                  (in.Address :> [acc EXCEPT !.PubKey = in.PubKey])
                                      @@ r.accounts])
             ELSE GetInputAccounts(tree, i + 1,
                      [r EXCEPT !.accounts = (in.Address :> acc) @@ r.accounts,
                                !.ins[i].PubKey = PubKeyNil])

\* The output loop of GetOrMakeAccounts from output i on.
RECURSIVE GetOutputAccounts(_, _, _, _)
GetOutputAccounts(tree, outs, i, r) ==
    IF i > Len(outs) \/ r.err # ErrNil THEN r
    ELSE LET out == outs[i]
             acc == IF out.Address \in DOMAIN tree THEN tree[out.Address]
                    ELSE [Address |-> out.Address, PubKey |-> PubKeyNil,
                          Sequence |-> 0, Balance |-> 0]
         IN  IF out.Address \in DOMAIN r.accounts
                 THEN [r EXCEPT !.err = "ErrTxDuplicateAddress"]
             ELSE GetOutputAccounts(tree, outs, i + 1,
                      [r EXCEPT !.accounts = (out.Address :> acc) @@ r.accounts])

\* State.GetOrMakeAccounts: [err, accounts, ins]; ins are the inputs as the
\* call leaves them.
GetOrMakeAccounts(tree, ins, outs) ==
    GetOutputAccounts(tree, outs, 1,
        GetInputAccounts(tree, 1,
            [err |-> ErrNil, accounts |-> <<>>, ins |-> ins]))

\* State.ValidateInputs from input i on: [err, total]
RECURSIVE ValidateInputsFrom(_, _, _, _, _)
ValidateInputsFrom(accounts, signBytes, ins, i, total) ==
    IF i > Len(ins) THEN [err |-> ErrNil, total |-> total]
    ELSE LET in == ins[i]
             acc == accounts[in.Address]
         IN  IF ~IOValidateBasic(in)
                 THEN [err |-> "ErrTxInvalidAddress", total |-> 0]
             ELSE IF ~VerifyBytes(acc.PubKey, signBytes, in.Signature)
                 THEN [err |-> "ErrTxInvalidSignature", total |-> 0]
             ELSE IF acc.Sequence + 1 # in.Sequence
                 THEN [err |-> "ErrTxInvalidSequence", total |-> 0]
             ELSE IF acc.Balance < in.Amount
                 THEN [err |-> "ErrTxInsufficientFunds", total |-> 0]
             ELSE ValidateInputsFrom(accounts, signBytes, ins, i + 1,
                                     UAdd(total, in.Amount))

ValidateInputs(accounts, signBytes, ins) ==
    ValidateInputsFrom(accounts, signBytes, ins, 1, 0)

\* State.ValidateOutputs from output i on: [err, total]
RECURSIVE ValidateOutputsFrom(_, _, _)
ValidateOutputsFrom(outs, i, total) ==
    IF i > Len(outs) THEN [err |-> ErrNil, total |-> total]
    ELSE IF ~IOValidateBasic(outs[i])
        THEN [err |-> "ErrTxInvalidAddress", total |-> 0]
    ELSE ValidateOutputsFrom(outs, i + 1, UAdd(total, outs[i].Amount))

ValidateOutputs(outs) == ValidateOutputsFrom(outs, 1, 0)

\* State.AdjustByInputs from input i on
RECURSIVE AdjustByInputsFrom(_, _, _)
AdjustByInputsFrom(accounts, ins, i) ==
    IF i > Len(ins) THEN accounts
    ELSE LET a == ins[i].Address
         IN  AdjustByInputsFrom(
                 [accounts EXCEPT ![a].Balance = USub(@, ins[i].Amount),
                                  ![a].Sequence = @ + 1],
                 ins, i + 1)

AdjustByInputs(accounts, ins) == AdjustByInputsFrom(accounts, ins, 1)

\* State.AdjustByOutputs from output i on
RECURSIVE AdjustByOutputsFrom(_, _, _)
AdjustByOutputsFrom(accounts, outs, i) ==
    IF i > Len(outs) THEN accounts
    ELSE AdjustByOutputsFrom(
             [accounts EXCEPT ![outs[i].Address].Balance = UAdd(@, outs[i].Amount)],
             outs, i + 1)

AdjustByOutputs(accounts, outs) == AdjustByOutputsFrom(accounts, outs, 1)

\* State.UpdateAccounts: every account of the map is set in the tree
UpdateAccounts(tree, accounts) == accounts @@ tree

\* ------------------------------------------------------------------------
\* Validator lifecycle (state.go:404-473); each returns [st, err]
\* ------------------------------------------------------------------------

Ok(st) == [st |-> st, err |-> ErrNil]

Fail(st, err) == [st |-> st, err |-> err]

\* unbondValidator without the removal from the bonded set
unbondValidatorKept(st, val) ==
    IF ~ValSetHas(st.BondedValidators, val.Address)
        THEN Fail(st, "panic: Couldn't remove validator for unbonding")
    ELSE Ok([st EXCEPT !.UnbondingValidators =
                ValSetAdd(@, [ValSetGetByAddress(st.BondedValidators, val.Address)
                                 EXCEPT !.UnbondHeight = st.LastBlockHeight + 1])])

\* State.unbondValidator
unbondValidator(st, val) ==
    IF ~ValSetHas(st.BondedValidators, val.Address)
        THEN Fail(st, "panic: Couldn't remove validator for unbonding")
    ELSE LET removed == ValSetGetByAddress(st.BondedValidators, val.Address)
             moved == [removed EXCEPT !.UnbondHeight = st.LastBlockHeight + 1]
             st1 == [st EXCEPT !.BondedValidators = ValSetRemove(@, val.Address)]
         IN  IF ValSetHas(st1.UnbondingValidators, moved.Address)
                 THEN Fail(st1, "panic: Couldn't add validator for unbonding")
             ELSE Ok([st1 EXCEPT !.UnbondingValidators = ValSetAdd(@, moved)])

\* State.rebondValidator
rebondValidator(st, val) ==
    IF ~ValSetHas(st.UnbondingValidators, val.Address)
        THEN Fail(st, "panic: Couldn't remove validator for rebonding")
    ELSE LET removed == ValSetGetByAddress(st.UnbondingValidators, val.Address)
             moved == [removed EXCEPT !.BondHeight = st.LastBlockHeight + 1]
             st1 == [st EXCEPT !.UnbondingValidators = ValSetRemove(@, val.Address)]
         IN  IF ValSetHas(st1.BondedValidators, moved.Address)
                 THEN Fail(st1, "panic: Couldn't add validator for rebonding")
             ELSE Ok([st1 EXCEPT !.BondedValidators = ValSetAdd(@, moved)])

\* State.releaseValidator
releaseValidator(st, val) ==
    IF val.Address \notin DOMAIN st.validatorInfos
        THEN Fail(st, "panic: Couldn't find validatorInfo for release")
    ELSE LET valInfo == [st.validatorInfos[val.Address] EXCEPT
                            !.ReleasedHeight = st.LastBlockHeight + 1]
             st1 == [st EXCEPT !.validatorInfos[val.Address] = valInfo]
             got == GetOrMakeAccounts(st1.accounts, <<>>, valInfo.UnbondTo)
             accounts == AdjustByOutputs(got.accounts, valInfo.UnbondTo)
             st2 == [st1 EXCEPT !.accounts = UpdateAccounts(@, accounts)]
         IN  IF got.err # ErrNil
                 THEN Fail(st1, "panic: Couldn't get or make unbondTo accounts")
             ELSE IF ~ValSetHas(st2.UnbondingValidators, val.Address)
                 THEN Fail(st2, "panic: Couldn't remove validator for release")
             ELSE Ok([st2 EXCEPT !.UnbondingValidators =
                                     ValSetRemove(@, val.Address)])

\* destroyValidator that drops the ValidatorInfo with the validator
destroyValidatorForgets(st, val) ==
    IF val.Address \notin DOMAIN st.validatorInfos
        THEN Fail(st, "panic: Couldn't find validatorInfo for release")
    ELSE Ok([st EXCEPT
                !.validatorInfos =
                    [a \in DOMAIN @ \ {val.Address} |-> @[a]],
                !.BondedValidators = ValSetRemove(@, val.Address),
                !.UnbondingValidators = ValSetRemove(@, val.Address)])

\* State.destroyValidator
destroyValidator(st, val) ==
    IF val.Address \notin DOMAIN st.validatorInfos
        THEN Fail(st, "panic: Couldn't find validatorInfo for release")
    ELSE LET valInfo == [st.validatorInfos[val.Address] EXCEPT
                            !.DestroyedHeight = st.LastBlockHeight + 1,
                            !.DestroyedAmount = val.VotingPower]
             st1 == [st EXCEPT !.validatorInfos[val.Address] = valInfo]
         IN  IF ValSetHas(st1.BondedValidators, val.Address)
                 THEN Ok([st1 EXCEPT !.BondedValidators =
                                         ValSetRemove(@, val.Address)])
             ELSE IF ValSetHas(st1.UnbondingValidators, val.Address)
                 THEN Ok([st1 EXCEPT !.UnbondingValidators =
                                         ValSetRemove(@, val.Address)])
             ELSE Fail(st1, "panic: Couldn't remove validator for destruction")

\* ------------------------------------------------------------------------
\* State.ExecTx (state.go:226-402): [st, err, tx, fee]; tx is the
\* transaction as the call leaves it, fee the fee the call computed.
\* ------------------------------------------------------------------------

TxResult(st, err, tx, fee) == [st |-> st, err |-> err, tx |-> tx, fee |-> fee]

\* The ValidatorInfo BondTx records (state.go:294-300)
NewValidatorInfo(tx, height, amount) ==
    [Address |-> Address(tx.PubKey), PubKey |-> tx.PubKey,
     UnbondTo |-> tx.UnbondTo, FirstBondHeight |-> height,
     FirstBondAmount |-> amount, ReleasedHeight |-> 0,
     DestroyedHeight |-> 0, DestroyedAmount |-> 0]

\* SendTx that deducts the inputs before it looks at the outputs
SendAdjustUnbuffered(st, tx, accounts, vin, vout) ==
    IF vout.err # ErrNil \/ vout.total > vin.total
        THEN TxResult([st EXCEPT !.accounts =
                          UpdateAccounts(@, AdjustByInputs(accounts, tx.Inputs))],
                      IF vout.err # ErrNil THEN vout.err ELSE "ErrTxInsufficientFunds",
                      tx, 0)
    ELSE TxResult([st EXCEPT !.accounts =
                      UpdateAccounts(@, AdjustByOutputs(
                                            AdjustByInputs(accounts, tx.Inputs),
                                            tx.Outputs))],
                  ErrNil, tx, USub(vin.total, vout.total))

\* SendTx once the outputs were validated (state.go:247-258)
SendAdjust(st, tx, accounts, vin, vout) ==
    IF vout.err # ErrNil THEN TxResult(st, vout.err, tx, 0)
    ELSE IF vout.total > vin.total
        THEN TxResult(st, "ErrTxInsufficientFunds", tx, 0)
    ELSE TxResult([st EXCEPT !.accounts =
                      UpdateAccounts(@, AdjustByOutputs(
                                            AdjustByInputs(accounts, tx.Inputs),
                                            tx.Outputs))],
                  ErrNil, tx, USub(vin.total, vout.total))

\* SendTx once the inputs were validated (state.go:239-246)
SendValidated(st, tx, accounts, vin) ==
    IF vin.err # ErrNil THEN TxResult(st, vin.err, tx, 0)
    ELSE SendAdjust(st, tx, accounts, vin, ValidateOutputs(tx.Outputs))

\* SendTx once GetOrMakeAccounts returned (state.go:234-238); tx is the
\* transaction as GetOrMakeAccounts left it
SendGot(st, tx, got) ==
    IF got.err # ErrNil THEN TxResult(st, got.err, tx, 0)
    ELSE SendValidated(st, tx, got.accounts,
                       ValidateInputs(got.accounts, SignBytes(tx), tx.Inputs))

\* GetOrMakeAccounts clears the PubKey of the inputs of known accounts
WithInputs(tx, got) == [tx EXCEPT !.Inputs = got.ins]

SendWith(st, tx, got) == SendGot(st, WithInputs(tx, got), got)

\* case *SendTx (state.go:233-258)
ExecSendTx(st, tx) ==
    SendWith(st, tx, GetOrMakeAccounts(st.accounts, tx.Inputs, tx.Outputs))

\* BondTx once the accounts and the ValidatorInfo were written
\* (state.go:301-312)
BondAdd(st, tx, amount, fee) ==
    IF ValSetHas(st.BondedValidators, Address(tx.PubKey))
        THEN TxResult(st, "panic: Failed to add validator", tx, fee)
    ELSE TxResult([st EXCEPT !.BondedValidators =
                      ValSetAdd(@, NewValidator(tx.PubKey, st.LastBlockHeight + 1,
                                                amount))],
                  ErrNil, tx, fee)

\* BondTx once the outputs were validated (state.go:281-300)
BondAdjust(st, tx, accounts, vin, vout) ==
    IF vout.err # ErrNil THEN TxResult(st, vout.err, tx, 0)
    ELSE IF vout.total > vin.total
        THEN TxResult(st, "ErrTxInsufficientFunds", tx, 0)
    ELSE BondAdd([st EXCEPT
                     !.accounts = UpdateAccounts(@, AdjustByInputs(accounts, tx.Inputs)),
                     !.validatorInfos =
                         (Address(tx.PubKey) :>
                              NewValidatorInfo(tx, st.LastBlockHeight + 1, vout.total))
                         @@ @],
                 tx, vout.total, USub(vin.total, vout.total))

\* BondTx once the inputs were validated (state.go:270-280)
BondValidated(st, tx, accounts, vin) ==
    IF vin.err # ErrNil THEN TxResult(st, vin.err, tx, 0)
    ELSE IF ~PubKeyValidateBasic(tx.PubKey) THEN TxResult(st, "Invalid PubKey", tx, 0)
    ELSE BondAdjust(st, tx, accounts, vin, ValidateOutputs(tx.UnbondTo))

\* BondTx once GetOrMakeAccounts returned (state.go:265-269)
BondGot(st, tx, got) ==
    IF got.err # ErrNil THEN TxResult(st, got.err, tx, 0)
    ELSE BondValidated(st, tx, got.accounts,
                       ValidateInputs(got.accounts, SignBytes(tx), tx.Inputs))

BondWith(st, tx, got) == BondGot(st, WithInputs(tx, got), got)

\* ExecBondTx that bonds the key of a validator there already is
ExecBondTxAgain(st, tx) ==
    BondWith(st, tx, GetOrMakeAccounts(st.accounts, tx.Inputs, <<>>))

\* case *BondTx (state.go:260-312)
ExecBondTx(st, tx) ==
    IF Address(tx.PubKey) \in DOMAIN st.validatorInfos
        THEN TxResult(st, "Adding coins to existing validators not yet supported",
                      tx, 0)
    ELSE BondWith(st, tx, GetOrMakeAccounts(st.accounts, tx.Inputs, <<>>))

\* The result of a transaction that ends with a validator lifecycle call
Moved(r, tx) == TxResult(r.st, r.err, tx, 0)

\* UnbondVal that takes an UnbondTx of any height
UnbondValStale(st, tx, val) ==
    IF ~VerifyBytes(val.PubKey, SignBytes(tx), tx.Signature)
        THEN TxResult(st, "ErrTxInvalidSignature", tx, 0)
    ELSE Moved(unbondValidator(st, val), tx)

\* UnbondTx on the bonded validator val (state.go:321-336)
UnbondVal(st, tx, val) ==
    IF ~VerifyBytes(val.PubKey, SignBytes(tx), tx.Signature)
        THEN TxResult(st, "ErrTxInvalidSignature", tx, 0)
    ELSE IF tx.Height <= val.LastCommitHeight
        THEN TxResult(st, "Invalid unbond height", tx, 0)
    ELSE Moved(unbondValidator(st, val), tx)

\* case *UnbondTx (state.go:314-336)
ExecUnbondTx(st, tx) ==
    IF ~ValSetHas(st.BondedValidators, tx.Address)
        THEN TxResult(st, "ErrTxInvalidAddress", tx, 0)
    ELSE UnbondVal(st, tx, ValSetGetByAddress(st.BondedValidators, tx.Address))

\* RebondTx on the unbonding validator val (state.go:345-360)
RebondVal(st, tx, val) ==
    IF ~VerifyBytes(val.PubKey, SignBytes(tx), tx.Signature)
        THEN TxResult(st, "ErrTxInvalidSignature", tx, 0)
    ELSE IF tx.Height # st.LastBlockHeight + 1
        THEN TxResult(st, "Invalid rebond height", tx, 0)
    ELSE Moved(rebondValidator(st, val), tx)

\* case *RebondTx (state.go:338-360)
ExecRebondTx(st, tx) ==
    IF ~ValSetHas(st.UnbondingValidators, tx.Address)
        THEN TxResult(st, "ErrTxInvalidAddress", tx, 0)
    ELSE RebondVal(st, tx, ValSetGetByAddress(st.UnbondingValidators, tx.Address))

\* DupeoutTx that takes any commit as vote_a for the special case, whatever
\* the rounds
DupeoutValAnyCommit(st, tx, accused) ==
    IF \/ ~VerifyBytes(accused.PubKey, VoteSignBytes(tx.VoteA), tx.VoteA.Signature)
       \/ ~VerifyBytes(accused.PubKey, VoteSignBytes(tx.VoteB), tx.VoteB.Signature)
        THEN TxResult(st, "ErrTxInvalidSignature", tx, 0)
    ELSE IF tx.VoteA.Height # tx.VoteB.Height
        THEN TxResult(st, "DupeoutTx heights don't match", tx, 0)
    ELSE IF tx.VoteA.Type = VoteTypeCommit
        THEN Moved(destroyValidator(st, accused), tx)
    ELSE IF tx.VoteA.Round # tx.VoteB.Round
        THEN TxResult(st, "DupeoutTx rounds don't match", tx, 0)
    ELSE IF tx.VoteA.Type # tx.VoteB.Type
        THEN TxResult(st, "DupeoutTx types don't match", tx, 0)
    ELSE IF tx.VoteA.BlockHash = tx.VoteB.BlockHash
        THEN TxResult(st, "DupeoutTx blockhashes shouldn't match", tx, 0)
    ELSE Moved(destroyValidator(st, accused), tx)

\* DupeoutTx on the bonded validator accused (state.go:366-397)
DupeoutVal(st, tx, accused) ==
    IF \/ ~VerifyBytes(accused.PubKey, VoteSignBytes(tx.VoteA), tx.VoteA.Signature)
       \/ ~VerifyBytes(accused.PubKey, VoteSignBytes(tx.VoteB), tx.VoteB.Signature)
        THEN TxResult(st, "ErrTxInvalidSignature", tx, 0)
    ELSE IF tx.VoteA.Height # tx.VoteB.Height
        THEN TxResult(st, "DupeoutTx heights don't match", tx, 0)
    ELSE IF tx.VoteA.Type = VoteTypeCommit /\ tx.VoteA.Round < tx.VoteB.Round
        THEN Moved(destroyValidator(st, accused), tx)
    ELSE IF tx.VoteA.Round # tx.VoteB.Round
        THEN TxResult(st, "DupeoutTx rounds don't match", tx, 0)
    ELSE IF tx.VoteA.Type # tx.VoteB.Type
        THEN TxResult(st, "DupeoutTx types don't match", tx, 0)
    ELSE IF tx.VoteA.BlockHash = tx.VoteB.BlockHash
        THEN TxResult(st, "DupeoutTx blockhashes shouldn't match", tx, 0)
    ELSE Moved(destroyValidator(st, accused), tx)

\* case *DupeoutTx (state.go:362-397): GetByAddress returns nil for an
\* address that is not bonded, and accused.PubKey dereferences it
ExecDupeoutTx(st, tx) ==
    IF ~ValSetHas(st.BondedValidators, tx.Address)
        THEN TxResult(st, "panic: nil pointer dereference", tx, 0)
    ELSE DupeoutVal(st, tx, ValSetGetByAddress(st.BondedValidators, tx.Address))

ExecTx(st, tx) ==
    CASE tx.type = "SendTx" -> ExecSendTx(st, tx)
      [] tx.type = "BondTx" -> ExecBondTx(st, tx)
      [] tx.type = "UnbondTx" -> ExecUnbondTx(st, tx)
      [] tx.type = "RebondTx" -> ExecRebondTx(st, tx)
      [] tx.type = "DupeoutTx" -> ExecDupeoutTx(st, tx)

\* ------------------------------------------------------------------------
\* Blocks
\* ------------------------------------------------------------------------

\* A nil byte slice (an unset hash)
NilBytes == <<>>

\* Block.Hash(): covers the header of the block, its StateHash included
BlockHash(block) == <<block.Height, block.Time, block.StateHash>>

\* Commit.IsZero(): the signature is empty
IsZero(commit) == commit.Signature.key = PubKeyNil

\* Block.ValidateBasic(lastBlockHeight, lastBlockHash, lastBlockParts,
\* lastBlockTime): the error, or ErrNil
BlockValidateBasic(block, st) ==
    IF block.Height # st.LastBlockHeight + 1 THEN "Wrong Block.Header.Height"
    ELSE IF block.LastBlockHash # st.LastBlockHash
        THEN "Wrong Block.Header.LastBlockHash"
    ELSE IF block.LastBlockParts # st.LastBlockParts
        THEN "Wrong Block.Header.LastBlockParts"
    ELSE IF ~(block.Time > st.LastBlockTime) THEN "Invalid Block.Header.Time"
    ELSE ErrNil

\* The vote a commit of the block stands for (state.go:502-508)
CommitVote(block, commit) ==
    [Height |-> block.Height - 1, Round |-> commit.Round, Type |-> VoteTypeCommit,
     BlockHash |-> block.LastBlockHash, BlockParts |-> block.LastBlockParts]

\* State.Hash(): the hash of the four hashables, the block tail excluded
Hash(st) ==
    <<st.BondedValidators, st.UnbondingValidators, st.accounts, st.validatorInfos>>

\* ------------------------------------------------------------------------
\* State.AppendBlock (state.go:480-601): [st, err, block, stage]; block is
\* the block as the call leaves it, stage the step that returned.
\* ------------------------------------------------------------------------

BlockResult(st, err, block, stage) ==
    [st |-> st, err |-> err, block |-> block, stage |-> stage]

\* The iteration over the bonded validators (state.go:497-518) from index i
\* on: [err, sum]
RECURSIVE SumCommits(_, _, _, _)
SumCommits(vs, block, i, sum) ==
    IF i > Len(vs) THEN [err |-> ErrNil, sum |-> sum]
    ELSE LET commit == block.Commits[i]
         IN  IF IsZero(commit) THEN SumCommits(vs, block, i + 1, sum)
             ELSE IF VerifyBytes(vs[i].PubKey, CommitVote(block, commit),
                                 commit.Signature)
                 THEN SumCommits(vs, block, i + 1, UAdd(sum, vs[i].VotingPower))
             ELSE [err |-> "Invalid validation signature", sum |-> sum]

\* The threshold test of state.go:522
InsufficientVotingPower(sum, vs) == sum <= UMul(TotalVotingPower(vs), 2) \div 3

\* Validate block Validation (state.go:487-525): the error, or ErrNil
ValidateValidation(st, block) ==
    IF block.Height = 1
        THEN IF Len(block.Commits) # 0
                 THEN "Block at height 1 (first block) should have no Validation commits"
             ELSE ErrNil
    ELSE IF Len(block.Commits) # Len(st.BondedValidators)
        THEN "Invalid block validation size"
    ELSE LET r == SumCommits(st.BondedValidators, block, 1, 0)
         IN  IF r.err # ErrNil THEN r.err
             ELSE IF InsufficientVotingPower(r.sum, st.BondedValidators)
                 THEN "Insufficient validation voting power"
             ELSE ErrNil

\* Commit each tx (state.go:527-533) from transaction i on: [st, err, txs]
RECURSIVE ExecTxs(_, _, _)
\* ExecTx of transaction i returned r
ExecTxsNext(r, txs, i) ==
    IF r.err # ErrNil
        THEN [st |-> r.st, err |-> r.err, txs |-> [txs EXCEPT ![i] = r.tx]]
    ELSE ExecTxs(r.st, [txs EXCEPT ![i] = r.tx], i + 1)

ExecTxs(st, txs, i) ==
    IF i > Len(txs) THEN [st |-> st, err |-> ErrNil, txs |-> txs]
    ELSE ExecTxsNext(ExecTx(st, txs[i]), txs, i)

\* Update Validator.LastCommitHeight (state.go:535-549) from commit i on
RECURSIVE UpdateLastCommitHeight(_, _, _)
UpdateLastCommitHeight(st, block, i) ==
    IF i > Len(block.Commits) THEN Ok(st)
    ELSE IF IsZero(block.Commits[i]) THEN UpdateLastCommitHeight(st, block, i + 1)
    ELSE IF i > Len(st.BondedValidators)
        THEN Fail(st, "panic: Failed to fetch validator at index")
    ELSE UpdateLastCommitHeight(
             [st EXCEPT !.BondedValidators[i].LastCommitHeight = block.Height - 1],
             block, i + 1)

\* releaseValidator of vals[i], vals[i+1], ... (state.go:560-562); a panic
\* ends it.
RECURSIVE ReleaseValidators(_, _, _)
ReleaseValidators(st, vals, i) ==
    IF i > Len(vals) THEN Ok(st)
    ELSE LET r == releaseValidator(st, vals[i])
         IN  IF r.err # ErrNil THEN r ELSE ReleaseValidators(r.st, vals, i + 1)

\* unbondValidator of vals[i], vals[i+1], ... (state.go:573-575); a panic
\* ends it.
RECURSIVE TimeoutValidators(_, _, _)
TimeoutValidators(st, vals, i) ==
    IF i > Len(vals) THEN Ok(st)
    ELSE LET r == unbondValidator(st, vals[i])
         IN  IF r.err # ErrNil THEN r ELSE TimeoutValidators(r.st, vals, i + 1)

\* ToRelease that takes the period to be over one block earlier
ToReleaseEarly(st, block) ==
    SelectSeq(st.UnbondingValidators,
              LAMBDA val : val.UnbondHeight + unbondingPeriodBlocks <= block.Height)

\* The unbonding validators whose period is over (state.go:553-559)
ToRelease(st, block) ==
    SelectSeq(st.UnbondingValidators,
              LAMBDA val : val.UnbondHeight + unbondingPeriodBlocks < block.Height)

\* The bonded validators that have timed out (state.go:566-572)
ToTimeout(st, block) ==
    SelectSeq(st.BondedValidators,
              LAMBDA val : val.LastCommitHeight + validatorTimeoutBlocks < block.Height)

\* The block tail of the state after block (state.go:596-600)
SetLastBlock(st, block, blockPartsHeader) ==
    BlockResult([st EXCEPT !.LastBlockHeight = block.Height,
                           !.LastBlockHash = BlockHash(block),
                           !.LastBlockParts = blockPartsHeader,
                           !.LastBlockTime = block.Time],
                ErrNil, block, "done")

\* BindStateHash that does not set block.StateHash
BindStateHashUnstamped(st, block, blockPartsHeader, checkStateHash) ==
    IF checkStateHash /\ Hash(st) # block.StateHash
        THEN BlockResult(st, "Invalid state hash", block, "hash")
    ELSE IF ~checkStateHash /\ block.StateHash # NilBytes
        THEN BlockResult(st, "panic: Cannot overwrite block_.StateHash", block, "hash")
    ELSE SetLastBlock(st, block, blockPartsHeader)

\* Check or set block.StateHash (state.go:580-594), then the block tail
BindStateHash(st, block, blockPartsHeader, checkStateHash) ==
    IF checkStateHash /\ Hash(st) # block.StateHash
        THEN BlockResult(st, "Invalid state hash", block, "hash")
    ELSE IF ~checkStateHash /\ block.StateHash # NilBytes
        THEN BlockResult(st, "panic: Cannot overwrite block_.StateHash", block, "hash")
    ELSE SetLastBlock(st,
                      IF checkStateHash THEN block
                      ELSE [block EXCEPT !.StateHash = Hash(st)],
                      blockPartsHeader)

\* AppendBlock once the validators that timed out were unbonded: increment
\* the accums (state.go:577-578), then the state hash
AfterTimeout(r, block, blockPartsHeader, checkStateHash) ==
    IF r.err # ErrNil THEN BlockResult(r.st, r.err, block, "timeout")
    ELSE BindStateHash([r.st EXCEPT !.BondedValidators = IncrementAccum(@)],
                       block, blockPartsHeader, checkStateHash)

\* AppendBlock once the validators were released (state.go:564-575)
AfterRelease(r, block, blockPartsHeader, checkStateHash) ==
    IF r.err # ErrNil THEN BlockResult(r.st, r.err, block, "release")
    ELSE AfterTimeout(TimeoutValidators(r.st, ToTimeout(r.st, block), 1),
                      block, blockPartsHeader, checkStateHash)

\* AppendBlock once LastCommitHeight was updated (state.go:551-562)
AfterCommits(r, block, blockPartsHeader, checkStateHash) ==
    IF r.err # ErrNil THEN BlockResult(r.st, r.err, block, "commit")
    ELSE AfterRelease(ReleaseValidators(r.st, ToRelease(r.st, block), 1),
                      block, blockPartsHeader, checkStateHash)

\* AppendBlock once the transactions were executed (state.go:535-549)
AfterTxs(r, block, blockPartsHeader, checkStateHash) ==
    IF r.err # ErrNil
        THEN BlockResult(r.st, r.err, [block EXCEPT !.Txs = r.txs], "tx")
    ELSE AfterCommits(UpdateLastCommitHeight(r.st, block, 1),
                      [block EXCEPT !.Txs = r.txs], blockPartsHeader, checkStateHash)

\* AppendBlock that sets the block height before it returns the error of
\* the validation
AfterValidationHeightSet(err, st, block, blockPartsHeader, checkStateHash) ==
    IF err # ErrNil
        THEN BlockResult([st EXCEPT !.LastBlockHeight = block.Height], err, block,
                         "validation")
    ELSE AfterTxs(ExecTxs(st, block.Txs, 1), block, blockPartsHeader, checkStateHash)

\* AppendBlock once the block was validated (state.go:527-533)
AfterValidation(err, st, block, blockPartsHeader, checkStateHash) ==
    IF err # ErrNil THEN BlockResult(st, err, block, "validation")
    ELSE AfterTxs(ExecTxs(st, block.Txs, 1), block, blockPartsHeader, checkStateHash)

\* AppendBlock once Block.ValidateBasic returned (state.go:487-525)
AfterValidateBasic(err, st, block, blockPartsHeader, checkStateHash) ==
    IF err # ErrNil THEN BlockResult(st, err, block, "basic")
    ELSE AfterValidation(ValidateValidation(st, block), st, block, blockPartsHeader,
                         checkStateHash)

AppendBlock(st, block, blockPartsHeader, checkStateHash) ==
    AfterValidateBasic(BlockValidateBasic(block, st), st, block, blockPartsHeader,
                       checkStateHash)

\* ------------------------------------------------------------------------
\* State objects and the heap
\* ------------------------------------------------------------------------

\* heap : the validator sets and merkle trees, by reference
\* state: the State object the node holds
\* copy : the State object State.Copy() returned last
\* last : what the last call was and what it returned
VARIABLES heap, state, copy, last

vars == <<heap, state, copy, last>>

\* Package alert (alert.go:11-12), its configuration and its surroundings
\* lastAlertUnix  : var lastAlertUnix int64
\* alertCountSince: var alertCountSince int
\* Config         : Config.Network and Config.Alert
\* clock          : what time.Now().Unix() returns
\* sent           : the notifications the last call of Alert sent out, the
\*                  time of the last call that sent one, the calls since
VARIABLES lastAlertUnix, alertCountSince, Config, clock, sent

alertVars == <<lastAlertUnix, alertCountSince, Config, clock, sent>>

\* The references a State object of that name holds after construction
Refs(name) ==
    [BondedValidators |-> <<name, "BondedValidators">>,
     UnbondingValidators |-> <<name, "UnbondingValidators">>,
     accounts |-> <<name, "accounts">>,
     validatorInfos |-> <<name, "validatorInfos">>]

RefFields == {"BondedValidators", "UnbondingValidators", "accounts", "validatorInfos"}

AllRefs == {<<name, f>> : name \in {"state", "copy"}, f \in RefFields}

\* The State struct (state.go:39-49) with what its references point at
Deref(h, obj) ==
    [LastBlockHeight |-> obj.LastBlockHeight,
     LastBlockHash |-> obj.LastBlockHash,
     LastBlockParts |-> obj.LastBlockParts,
     LastBlockTime |-> obj.LastBlockTime,
     BondedValidators |-> h[obj.BondedValidators],
     UnbondingValidators |-> h[obj.UnbondingValidators],
     accounts |-> h[obj.accounts],
     validatorInfos |-> h[obj.validatorInfos]]

\* The fields of the struct a method call on obj leaves: the block tail is
\* assigned, the references stay.
Assign(obj, st) ==
    [obj EXCEPT !.LastBlockHeight = st.LastBlockHeight,
                !.LastBlockHash = st.LastBlockHash,
                !.LastBlockParts = st.LastBlockParts,
                !.LastBlockTime = st.LastBlockTime]

\* The heap a method call on obj leaves: the sets and trees are changed in
\* place, through the references of obj.
Mutate(h, obj, st) ==
    [r \in DOMAIN h |->
        IF r = obj.validatorInfos THEN st.validatorInfos
        ELSE IF r = obj.accounts THEN st.accounts
        ELSE IF r = obj.UnbondingValidators THEN st.UnbondingValidators
        ELSE IF r = obj.BondedValidators THEN st.BondedValidators
        ELSE h[r]]

\* Copy that copies the struct only: the copy holds the references of obj
CopyShared(h, obj) == [obj |-> obj, heap |-> h]

\* State.Copy (state.go:97-109): [obj, heap]; the block tail is copied by
\* value, each set and tree into a new object.
Copy(h, obj) ==
    LET new == Refs("copy")
    IN  [obj |-> [obj EXCEPT !.BondedValidators = new.BondedValidators,
                             !.UnbondingValidators = new.UnbondingValidators,
                             !.accounts = new.accounts,
                             !.validatorInfos = new.validatorInfos],
         heap |-> [r \in DOMAIN h |->
                     IF r = new.BondedValidators THEN h[obj.BondedValidators]
                     ELSE IF r = new.UnbondingValidators
                         THEN h[obj.UnbondingValidators]
                     ELSE IF r = new.accounts THEN h[obj.accounts]
                     ELSE IF r = new.validatorInfos THEN h[obj.validatorInfos]
                     ELSE h[r]]]

\* ------------------------------------------------------------------------
\* Genesis
\* ------------------------------------------------------------------------

Account(addr, pubKey, balance) ==
    [Address |-> addr, PubKey |-> pubKey, Sequence |-> 0, Balance |-> balance]

Output(addr, amount) == [Address |-> addr, Amount |-> amount]

\* A genesis validator of that address and voting power, bonded at height 0,
\* with its ValidatorInfo: the power goes back to its own address.
GenesisValidator(addr, power) == NewValidator(addr, 0, power)

GenesisValidatorInfo(addr, power) ==
    NewValidatorInfo([PubKey |-> addr, UnbondTo |-> <<Output(addr, power)>>],
                     0, power)

\* The state MakeGenesisState builds from those accounts and validators
GenesisState(accs, vals) ==
    [LastBlockHeight |-> 0, LastBlockHash |-> NilBytes, LastBlockParts |-> 0,
     LastBlockTime |-> 0,
     BondedValidators |-> vals,
     UnbondingValidators |-> <<>>,
     accounts |-> accs,
     validatorInfos |->
         [a \in ValSetAddrs(vals) |->
             GenesisValidatorInfo(a, ValSetGetByAddress(vals, a).VotingPower)]]

GenesisStates ==
    {GenesisState((1 :> Account(1, 1, 3)) @@ (2 :> Account(2, PubKeyNil, 2)),
                  <<GenesisValidator(1, p), GenesisValidator(2, 1)>>) :
        p \in {1, 2}}

\* ------------------------------------------------------------------------
\* The transactions and blocks the environment submits
\* ------------------------------------------------------------------------

ZeroSig == Sign(PubKeyNil, [type |-> "none"])

Other(addr) == IF addr = 1 THEN 2 ELSE 1

Seqs == 1..MaxSeq

Input(addr, amount, sequence, pubKey) ==
    [Address |-> addr, Amount |-> amount, Sequence |-> sequence,
     Signature |-> ZeroSig, PubKey |-> pubKey]

\* tx with input i signed by keys[i] over bytes (not signed where keys[i] = 0)
SignInputs(tx, keys, bytes) ==
    [tx EXCEPT !.Inputs =
        [i \in 1..Len(tx.Inputs) |->
            [tx.Inputs[i] EXCEPT !.Signature =
                IF keys[i] = PubKeyNil THEN ZeroSig ELSE Sign(keys[i], bytes)]]]

\* tx with every input's PubKey cleared
Canonical(tx) ==
    [tx EXCEPT !.Inputs =
        [i \in 1..Len(tx.Inputs) |-> [tx.Inputs[i] EXCEPT !.PubKey = PubKeyNil]]]

\* tx signed by its owners over the bytes as submitted
Signed(tx) ==
    SignInputs(tx, [i \in 1..Len(tx.Inputs) |-> tx.Inputs[i].Address], SignBytes(tx))

SendTx(ins, outs) == [type |-> "SendTx", Inputs |-> ins, Outputs |-> outs]

BondTx(pubKey, ins, unbondTo) ==
    [type |-> "BondTx", PubKey |-> pubKey, Inputs |-> ins, UnbondTo |-> unbondTo]

\* An UnbondTx or RebondTx signed by key
LifecycleTx(type, addr, height, key) ==
    LET tx == [type |-> type, Address |-> addr, Height |-> height,
               Signature |-> ZeroSig]
    IN  [tx EXCEPT !.Signature = Sign(key, SignBytes(tx))]

\* A vote signed by key
Vote(height, round, type, blockHash, key) ==
    LET vote == [Height |-> height, Round |-> round, Type |-> type,
                 BlockHash |-> blockHash, BlockParts |-> 0, Signature |-> ZeroSig]
    IN  [vote EXCEPT !.Signature = Sign(key, VoteSignBytes(vote))]

DupeoutTx(addr, voteA, voteB) ==
    [type |-> "DupeoutTx", Address |-> addr, VoteA |-> voteA, VoteB |-> voteB]

\* Inputs of an account that may pass validation in some state
PlainInputs ==
    UNION {{Input(a, 1, q, k) : q \in Seqs, k \in {PubKeyNil, a}} : a \in {1, 2}}

OddInputs ==
    {Input(3, 1, 1, 3), Input(1, 1, 1, 2), Input(2, 1, 1, 1), Input(1, 2, 1, PubKeyNil),
     Input(1, Half, 1, PubKeyNil)}

OutputLists ==
    {<<>>, <<Output(3, 1)>>, <<Output(1, 1)>>, <<Output(BadAddr, 1)>>,
     <<Output(3, 2)>>, <<Output(3, 1), Output(3, 1)>>,
     <<Output(3, Half), Output(2, Half + 1)>>}

SendTxs ==
    \* no input
    {SendTx(<<>>, outs) : outs \in {<<>>, <<Output(3, Half), Output(2, Half)>>}}
    \* one input, signed by its owner
    \cup {Signed(SendTx(<<in>>, outs)) : in \in PlainInputs, outs \in OutputLists}
    \cup {Signed(SendTx(<<in>>, <<Output(3, 1)>>)) : in \in OddInputs}
    \* one input, signed by another key, not signed, signed over other bytes
    \cup UNION {{SignInputs(SendTx(<<in>>, <<Output(3, 1)>>), <<k>>,
                            SignBytes(SendTx(<<in>>, <<Output(3, 1)>>))) :
                    k \in {PubKeyNil, Other(in.Address)}} :
                   in \in {i \in PlainInputs : i.Sequence = 1}}
    \cup {SignInputs(SendTx(<<in>>, <<Output(3, 1)>>), <<in.Address>>,
                     SignBytes(Canonical(SendTx(<<in>>, <<Output(3, 1)>>)))) :
             in \in {i \in PlainInputs : i.PubKey # PubKeyNil}}
    \* two inputs
    \cup {Signed(SendTx(<<Input(1, 1, q1, PubKeyNil), Input(2, 1, q2, 2)>>,
                        <<Output(3, 2)>>)) : q1 \in Seqs, q2 \in Seqs}
    \cup {Signed(SendTx(<<Input(1, 1, 1, PubKeyNil), Input(1, 1, 1, PubKeyNil)>>,
                        <<Output(3, 2)>>))}

UnbondToLists ==
    {<<>>, <<Output(3, 1)>>, <<Output(BadAddr, 1)>>, <<Output(3, 2)>>,
     <<Output(3, Half), Output(3, Half)>>}

BondTxs ==
    {BondTx(k, <<>>, <<>>) : k \in {PubKeyNil, 1, 3}}
    \cup {Signed(BondTx(3, <<in>>, outs)) : in \in PlainInputs, outs \in UnbondToLists}
    \cup {Signed(BondTx(k, <<Input(1, 1, 1, PubKeyNil)>>, <<Output(1, 1)>>)) :
             k \in {PubKeyNil, 1}}
    \cup {SignInputs(BondTx(3, <<in>>, <<Output(3, 1)>>), <<Other(in.Address)>>,
                     SignBytes(BondTx(3, <<in>>, <<Output(3, 1)>>))) :
             in \in {Input(1, 1, 1, PubKeyNil)}}

Heights == 0..MaxHeight

LifecycleTxs(type) ==
    UNION {{LifecycleTx(type, a, h, k) : h \in Heights, k \in {a, Other(a)}} :
              a \in Addrs}

UnbondTxs == LifecycleTxs("UnbondTx")

RebondTxs == LifecycleTxs("RebondTx")

VoteTypes == {VoteTypePrecommit, VoteTypeCommit}

\* Two votes of validator a of height 1, and pairs of which one is of
\* another height or signed by another key
DupeoutTxsOf(a) ==
    {DupeoutTx(a, Vote(1, ra, ta, 1, a), Vote(1, rb, tb, bb, a)) :
        ra \in {0, 1}, ta \in VoteTypes, rb \in {0, 1}, tb \in VoteTypes, bb \in {1, 2}}
    \cup {DupeoutTx(a, Vote(1, 0, VoteTypePrecommit, 1, a),
                       Vote(2, 0, VoteTypePrecommit, 2, a)),
          DupeoutTx(a, Vote(1, 0, VoteTypePrecommit, 1, Other(a)),
                       Vote(1, 0, VoteTypePrecommit, 2, a)),
          DupeoutTx(a, Vote(1, 0, VoteTypePrecommit, 1, a),
                       Vote(1, 0, VoteTypePrecommit, 2, Other(a)))}

DupeoutTxs ==
    DupeoutTxsOf(1)
    \cup {DupeoutTx(a, Vote(1, 0, VoteTypePrecommit, 1, a),
                       Vote(1, 0, VoteTypePrecommit, 2, a)) : a \in {2, 3}}

\* The transactions of blocks: well-signed ones of every kind, and one
\* that is not signed.
BlockTxs ==
    {Signed(SendTx(<<Input(1, 1, q, PubKeyNil)>>, <<Output(3, 1)>>)) : q \in Seqs}
    \cup {Signed(SendTx(<<Input(2, 1, 1, 2)>>, <<Output(3, 1)>>)),
          SendTx(<<Input(1, 1, 1, PubKeyNil)>>, <<Output(3, 1)>>),
          BondTx(3, <<>>, <<>>),
          Signed(BondTx(3, <<Input(1, 1, 1, PubKeyNil)>>, <<Output(3, 1)>>))}
    \cup {LifecycleTx("UnbondTx", a, MaxHeight, a) : a \in Addrs}
    \cup {LifecycleTx("RebondTx", a, h, a) : a \in {2}, h \in 1..MaxHeight}
    \cup {DupeoutTx(a, Vote(1, 0, VoteTypePrecommit, 1, a),
                       Vote(1, 0, VoteTypePrecommit, 2, a)) : a \in {1, 3}}

BlockTxLists ==
    {<<>>} \cup {<<tx>> : tx \in BlockTxs}
    \cup {<<Signed(SendTx(<<Input(1, 1, 1, PubKeyNil)>>,
                          <<Output(3, Half), Output(2, Half + 1)>>))>>}
    \cup {<<LifecycleTx("UnbondTx", 2, h, 2), LifecycleTx("RebondTx", 2, h, 2)>> :
             h \in 1..MaxHeight}
    \cup {<<Signed(SendTx(<<Input(1, 1, 1, PubKeyNil)>>, <<Output(3, 1)>>)), tx>> :
             tx \in {Signed(SendTx(<<Input(1, 1, 1, PubKeyNil)>>, <<Output(3, 1)>>)),
                     Signed(SendTx(<<Input(1, 1, 2, PubKeyNil)>>, <<Output(3, 1)>>))}}

\* A BondTx of validator 3 that names one address twice in its unbond_to
BondTwice ==
    Signed(BondTx(3, <<Input(1, 2, 1, PubKeyNil)>>, <<Output(3, 1), Output(3, 1)>>))

\* The transaction lists of the blocks the node appends to its State: the
\* validator lifecycle, one transaction per block, and a validator that
\* bonds and unbonds in one block
ChainTxLists ==
    {<<>>,
     <<Signed(BondTx(3, <<Input(1, 1, 1, PubKeyNil)>>, <<Output(3, 1)>>))>>,
     <<LifecycleTx("UnbondTx", 2, MaxHeight, 2)>>,
     <<DupeoutTx(1, Vote(1, 0, VoteTypePrecommit, 1, 1),
                    Vote(1, 0, VoteTypePrecommit, 2, 1))>>,
     <<BondTwice, LifecycleTx("UnbondTx", 3, MaxHeight, 3)>>}
    \cup {<<LifecycleTx("RebondTx", 2, h, 2)>> : h \in 1..MaxHeight}

\* The block that extends the chain of st with those commits and transactions
NextBlock(st, commits, txs) ==
    [Height |-> st.LastBlockHeight + 1, Time |-> st.LastBlockTime + 1,
     LastBlockHash |-> st.LastBlockHash, LastBlockParts |-> st.LastBlockParts,
     StateHash |-> NilBytes, Commits |-> commits, Txs |-> txs]

\* Blocks that do not extend the chain of st
UnlinkedBlocks(st) ==
    {[NextBlock(st, <<>>, <<>>) EXCEPT !.Height = @ + 1],
     [NextBlock(st, <<>>, <<>>) EXCEPT !.LastBlockHash = <<0, 0, NilBytes>>],
     [NextBlock(st, <<>>, <<>>) EXCEPT !.LastBlockParts = @ + 1],
     [NextBlock(st, <<>>, <<>>) EXCEPT !.Time = st.LastBlockTime]}

\* The commit of round 0 signed by key for the block of that height
Commit(st, height, key) ==
    [Round |-> 0,
     Signature |->
         IF key = PubKeyNil THEN ZeroSig
         ELSE Sign(key, [Height |-> height, Round |-> 0, Type |-> VoteTypeCommit,
                         BlockHash |-> st.LastBlockHash,
                         BlockParts |-> st.LastBlockParts])]

\* One commit per bonded validator, each zero or signed by its validator;
\* the first block has no block before it to commit
HonestCommits(st) ==
    LET vs == st.BondedValidators
    IN  IF st.LastBlockHeight = 0 THEN {<<>>}
        ELSE {[i \in 1..Len(vs) |->
                 Commit(st, st.LastBlockHeight, IF i \in signers THEN vs[i].PubKey
                                                ELSE PubKeyNil)] :
                signers \in SUBSET (1..Len(vs))}

\* Every validator signs, but commit j is signed by another key or for the
\* block before; or the number of commits is not the number of validators.
OddCommits(st) ==
    LET vs == st.BondedValidators
        all == [i \in 1..Len(vs) |-> Commit(st, st.LastBlockHeight, vs[i].PubKey)]
    IN  UNION {{[all EXCEPT ![j] = Commit(st, st.LastBlockHeight, Other(vs[j].Address))],
                [all EXCEPT ![j] = Commit(st, st.LastBlockHeight - 1, vs[j].PubKey)]} :
                  j \in 1..Len(vs)}
        \cup {all \o <<Commit(st, st.LastBlockHeight, PubKeyNil)>>, <<>>}

\* ------------------------------------------------------------------------
\* The calls
\* ------------------------------------------------------------------------

\* The node appends blocks to `state`; it takes a copy of it (State.Copy)
\* for a call that may fail and drops the copy when the call has returned.

\* No transaction
NoTx == [type |-> "none"]

NoCall ==
    [op |-> "none", on |-> "state", kind |-> "none", err |-> ErrNil,
     stage |-> "none", fee |-> 0, commits |-> <<>>, check |-> FALSE,
     stamped |-> FALSE, agree |-> TRUE, calls |-> 0, tx |-> NoTx, txs |-> <<>>]

\* The State object of that name
Object(name) == IF name = "state" THEN state ELSE copy

\* The State struct of that name over new, empty objects
NewObject(name) ==
    [LastBlockHeight |-> 0, LastBlockHash |-> NilBytes, LastBlockParts |-> 0,
     LastBlockTime |-> 0,
     BondedValidators |-> Refs(name).BondedValidators,
     UnbondingValidators |-> Refs(name).UnbondingValidators,
     accounts |-> Refs(name).accounts,
     validatorInfos |-> Refs(name).validatorInfos]

\* A panic ends the process; a State that AppendBlock left half way is
\* not used again (state.go:478-479).
Poisoned ==
    /\ last.op = "AppendBlock"
    /\ last.err # ErrNil
    /\ last.stage \notin {"basic", "validation"}

\* The node makes its calls one after the other
Idle == last.op = "none"

\* A copy was taken and nothing was called on it yet
Copied == last.op = "Copy"

\* A call on the copy has succeeded and the copy is used again; the caller
\* drops a copy whose call failed
Called ==
    /\ last.on = "copy"
    /\ last.op \in {"ExecTx", "AppendBlock"}
    /\ last.calls < MaxCalls
    /\ last.err = ErrNil

\* The call leaves the object of that name as st
Leaves(name, st) ==
    /\ heap' = Mutate(heap, Object(name), st)
    /\ UNCHANGED alertVars
    /\ IF name = "state"
           THEN state' = Assign(state, st) /\ UNCHANGED copy
       ELSE copy' = Assign(copy, st) /\ UNCHANGED state

\* s.ExecTx(tx) on the State object of that name
CallExecTx(name, tx) ==
    LET r == ExecTx(Deref(heap, Object(name)), tx)
    IN  /\ Leaves(name, r.st)
        /\ last' = [NoCall EXCEPT !.op = "ExecTx", !.on = name, !.kind = tx.type,
                                  !.err = r.err, !.fee = r.fee,
                                  !.calls = last.calls + 1,
                                  !.tx = IF r.err = ErrNil THEN r.tx ELSE NoTx]

\* The State object of that name and the caller after s.AppendBlock
\* returned r; proposal is what the proposer's AppendBlock returned.
Appended(name, block, checkStateHash, stamped, proposal, r) ==
    /\ Leaves(name, r.st)
    /\ last' = [NoCall EXCEPT
                   !.op = "AppendBlock", !.on = name, !.err = r.err,
                   !.stage = r.stage, !.commits = block.Commits, !.txs = block.Txs,
                   !.check = checkStateHash, !.stamped = stamped,
                   !.calls = last.calls + 1,
                   !.agree = (stamped =>
                                 /\ r.st = proposal.st
                                 /\ Hash(r.st) = proposal.block.StateHash)]

\* s.AppendBlock on a State with contents st of the block as the proposer
\* left it, when the block is one to stamp, and of the block itself otherwise
Proposed(name, st, block, checkStateHash, stamped, proposal) ==
    Appended(name, block, checkStateHash, stamped, proposal,
             AppendBlock(st, IF stamped THEN proposal.block ELSE block,
                         block.Height, checkStateHash))

\* The proposer's AppendBlock has returned proposal: the block is stamped
\* when it is to be checked, carries no state hash and the proposer accepted it
Propose(name, st, block, checkStateHash, proposal) ==
    Proposed(name, st, block, checkStateHash,
             checkStateHash /\ block.StateHash = NilBytes /\ proposal.err = ErrNil,
             proposal)

\* s.AppendBlock(block, parts, checkStateHash) on the State object of that
\* name.  A block to check is the block as the proposer's AppendBlock with
\* checkStateHash = false left it; the proposer ran on a State of its own
\* with the same contents.
CallAppendBlock(name, block, checkStateHash) ==
    Propose(name, Deref(heap, Object(name)), block, checkStateHash,
            AppendBlock(Deref(heap, Object(name)), block, block.Height, FALSE))

\* copy := state.Copy()
MakeCopy ==
    /\ Idle
    /\ LET c == Copy(heap, state)
       IN  /\ copy' = c.obj
           /\ heap' = c.heap
    /\ last' = [NoCall EXCEPT !.op = "Copy", !.on = "copy"]
    /\ UNCHANGED <<state, alertVars>>

ExecSend == Copied /\ \E tx \in SendTxs : CallExecTx("copy", tx)

ExecBond == Copied /\ \E tx \in BondTxs : CallExecTx("copy", tx)

ExecUnbond == Copied /\ \E tx \in UnbondTxs : CallExecTx("copy", tx)

ExecRebond == Copied /\ \E tx \in RebondTxs : CallExecTx("copy", tx)

ExecDupeout == Copied /\ \E tx \in DupeoutTxs : CallExecTx("copy", tx)

\* AppendBlock on the object of that name of a block that extends its
\* chain, with the transactions of one of those lists
AppendLinked(name, lists) ==
    /\ Object(name).LastBlockHeight < MaxHeight
    /\ LET st == Deref(heap, Object(name))
       IN  \/ \E commits \in HonestCommits(st), txs \in lists :
                  CallAppendBlock(name, NextBlock(st, commits, txs), TRUE)
           \/ \E commits \in HonestCommits(st) :
                  CallAppendBlock(name, NextBlock(st, commits, <<>>), FALSE)
           \/ \E commits \in OddCommits(st), check \in BOOLEAN :
                  CallAppendBlock(name, NextBlock(st, commits, <<>>), check)

\* AppendBlock on the object of that name of a block that does not extend
\* its chain, or that carries the hash of the state before it
AppendOdd(name) ==
    /\ Object(name).LastBlockHeight < MaxHeight
    /\ LET st == Deref(heap, Object(name))
           all == [i \in 1..Len(st.BondedValidators) |->
                      Commit(st, st.LastBlockHeight, st.BondedValidators[i].PubKey)]
           commits == IF st.LastBlockHeight = 0 THEN <<>> ELSE all
       IN  \E check \in BOOLEAN :
               \/ \E block \in UnlinkedBlocks(st) :
                      CallAppendBlock(name, block, check)
               \/ CallAppendBlock(name,
                      [NextBlock(st, commits, <<>>) EXCEPT !.StateHash = Hash(st)],
                      check)

\* The transaction that was accepted last is submitted again
ExecReplay == Called /\ last.tx # NoTx /\ CallExecTx("copy", last.tx)

\* The transactions submitted to a State that was called on before: one of
\* each kind that the State may accept
AgainTxs(st) ==
    {Signed(SendTx(<<Input(1, 1, q, PubKeyNil)>>, <<Output(3, 1)>>)) : q \in Seqs}
    \cup {Signed(BondTx(3, <<Input(1, 1, 1, PubKeyNil)>>, <<Output(3, 1)>>)),
          LifecycleTx("UnbondTx", 2, MaxHeight, 2),
          LifecycleTx("RebondTx", 2, st.LastBlockHeight + 1, 2),
          DupeoutTx(1, Vote(1, 0, VoteTypePrecommit, 1, 1),
                       Vote(1, 0, VoteTypePrecommit, 2, 1))}

\* Another transaction on the copy
ExecAgain == Called /\ \E tx \in AgainTxs(Deref(heap, copy)) : CallExecTx("copy", tx)

\* The transactions of a block for a State that was called on before: none,
\* or twice the same SendTx
AgainTxLists ==
    {<<>>}
    \cup {<<Signed(SendTx(<<Input(1, 1, q, PubKeyNil)>>, <<Output(3, 1)>>)),
            Signed(SendTx(<<Input(1, 1, q, PubKeyNil)>>, <<Output(3, 1)>>))>> :
             q \in Seqs}

\* Another block on the copy, with the commits of every validator
AppendAgain ==
    /\ Called
    /\ copy.LastBlockHeight < MaxHeight
    /\ LET st == Deref(heap, copy)
           all == [i \in 1..Len(st.BondedValidators) |->
                      Commit(st, st.LastBlockHeight, st.BondedValidators[i].PubKey)]
       IN  \E txs \in AgainTxLists :
               CallAppendBlock("copy",
                   NextBlock(st, IF st.LastBlockHeight = 0 THEN <<>> ELSE all, txs),
                   FALSE)

AppendState == Idle /\ (AppendLinked("state", ChainTxLists) \/ AppendOdd("state"))

AppendCopy == Copied /\ (AppendLinked("copy", BlockTxLists) \/ AppendOdd("copy"))

\* The call has returned and the caller has its result; the caller drops
\* the copy it called on.
Return ==
    /\ ~Idle
    /\ ~IsPanic(last.err)
    /\ last.on = "state" => ~Poisoned
    /\ last' = NoCall
    /\ copy' = NewObject("copy")
    /\ heap' = [r \in DOMAIN heap |-> IF r[1] = "copy" THEN <<>> ELSE heap[r]]
    /\ UNCHANGED <<state, alertVars>>

\* ------------------------------------------------------------------------
\* Package alert (alert.go)
\* ------------------------------------------------------------------------

\* The first value of the clock, and the last one
Epoch == 10

MaxClock == 12

\* The calls of Alert
MaxAlerts == 3

\* len(message) > 50 in sendTwilio, len(subject) > 80 in sendEmail
SmsMax == 50

SubjectMax == 80

\* Config.Network and Config.Alert: an interval of no second, of some
\* seconds and of more seconds than the clock shows; with and without a
\* Twilio account, with and without recipients
Configs ==
    [Network : {"testnet"},
     MinInterval : {0, 2, 2 * MaxClock},
     TwilioSid : {"", "AC0123"},
     EmailRecipients : {<<>>, <<"ops@example.com">>}]

\* The messages of the callers: a short one, and one of 90 characters
Messages ==
    {"disk full",
     "consensus halted: the proposal of the round was not received "
         \o "from the proposer within time"}

\* No SMS and no email
Silent == [sms |-> "", email |-> [subject |-> "", body |-> ""]]

\* The package as the program loads it (alert.go:11-12), with that
\* configuration
AlertLoaded(config) ==
    /\ lastAlertUnix = 0
    /\ alertCountSince = 0
    /\ Config = config
    /\ clock = Epoch
    /\ sent = [calls |-> 0, at |-> -1, since |-> 0,
               sms |-> Silent.sms, email |-> Silent.email]

\* fmt.Sprintf("%v:%v", Config.Network, message), and then
\* fmt.Sprintf("%v (+%v more since)", message, alertCountSince)
\* (alert.go:19-23)
Sprintf(message) ==
    IF alertCountSince > 0
        THEN Config.Network \o ":" \o message
                 \o " (+" \o ToString(alertCountSince) \o " more since)"
    ELSE Config.Network \o ":" \o message

\* sendTwilio (alert.go:35-49): the body of the SMS
sendTwilio(message) ==
    IF Len(message) > SmsMax THEN SubSeq(message, 1, SmsMax) ELSE message

\* sendEmail (alert.go:51-66): subject and body
sendEmail(message) ==
    [subject |-> IF Len(message) > SubjectMax THEN SubSeq(message, 1, SubjectMax)
                 ELSE message,
     body |-> message]

\* What Alert sends out of that message (alert.go:24-29)
Dispatch(message) ==
    [sms |-> IF Len(Config.TwilioSid) > 0 THEN sendTwilio(message) ELSE Silent.sms,
     email |-> IF Len(Config.EmailRecipients) > 0 THEN sendEmail(message)
               ELSE Silent.email]

\* A notification went out
Notified(out) == out.sms # Silent.sms \/ out.email # Silent.email

\* The caller's view of a call of Alert at the time now that sent out
\* (or did not)
Alerted(now, out) ==
    sent' = [calls |-> sent.calls + 1,
             at |-> IF Notified(out) THEN now ELSE sent.at,
             since |-> IF Notified(out) THEN 0 ELSE sent.since + 1,
             sms |-> out.sms, email |-> out.email]

\* func Alert(message string) (alert.go:15-33) at the time now.
\* lastAlertUnix is read and never assigned.
Alert(message, now) ==
    /\ IF now - lastAlertUnix > Config.MinInterval
           THEN /\ alertCountSince' = 0
                /\ Alerted(now, Dispatch(Sprintf(message)))
       ELSE /\ alertCountSince' = alertCountSince + 1
            /\ Alerted(now, Silent)
    /\ UNCHANGED <<lastAlertUnix, Config, clock>>

\* Some goroutine calls Alert
CallAlert ==
    /\ sent.calls < MaxAlerts
    /\ \E message \in Messages : Alert(message, clock)
    /\ UNCHANGED vars

\* A second passes
Tick ==
    /\ clock < MaxClock
    /\ clock' = clock + 1
    /\ UNCHANGED <<lastAlertUnix, alertCountSince, Config, sent>>
    /\ UNCHANGED vars

\* The package is loaded; no State is at work
AlertInit ==
    /\ \E config \in Configs : AlertLoaded(config)
    /\ state = NewObject("state")
    /\ copy = NewObject("copy")
    /\ heap = [r \in AllRefs |-> <<>>]
    /\ last = NoCall

AlertNext ==
    \/ CallAlert
    \/ Tick

AlertSpec == AlertInit /\ [][AlertNext]_alertVars

Init ==
    /\ \E g \in GenesisStates :
           /\ state = Assign(NewObject("state"), g)
           /\ heap = Mutate([r \in AllRefs |-> <<>>], NewObject("state"), g)
    /\ copy = NewObject("copy")
    /\ last = NoCall
    /\ AlertLoaded([Network |-> "testnet", MinInterval |-> 0, TwilioSid |-> "",
                    EmailRecipients |-> <<>>])

Next ==
    \/ MakeCopy
    \/ ExecSend
    \/ ExecBond
    \/ ExecUnbond
    \/ ExecRebond
    \/ ExecDupeout
    \/ AppendCopy
    \/ ExecReplay
    \/ ExecAgain
    \/ AppendAgain
    \/ AppendState
    \/ Return

Spec == Init /\ [][Next]_vars

\* ------------------------------------------------------------------------
\* Properties
\* ------------------------------------------------------------------------

Names == {"state", "copy"}

\* The call that has just returned was that operation on the object n
Returned(op, n) == last'.op = op /\ last'.on = n

\* The object n is after the step as it was before
Untouched(n) == Deref(heap, Object(n))' = Deref(heap, Object(n))

\* The voting power of vs[i], vs[i+1], ... as a natural number; of those
\* whose commit is not zero
RECURSIVE Power(_, _)
Power(vs, i) == IF i > Len(vs) THEN 0 ELSE vs[i].VotingPower + Power(vs, i + 1)

RECURSIVE CommittedPower(_, _, _)
CommittedPower(vs, commits, i) ==
    IF i > Len(vs) THEN 0
    ELSE (IF IsZero(commits[i]) THEN 0 ELSE vs[i].VotingPower)
         + CommittedPower(vs, commits, i + 1)

\* commits[i] is the commit of validator vs[i] for the last block of st
VerifiedCommit(st, commits, i) ==
    VerifyBytes(st.BondedValidators[i].PubKey,
                CommitVote(NextBlock(st, commits, <<>>), commits[i]),
                commits[i].Signature)

\* AppendBlock on a State with contents st of a block of height > 1 with
\* those commits went past the commit aggregation
PassedAggregation(n) ==
    /\ Returned("AppendBlock", n)
    /\ last'.stage \notin {"basic", "validation"}
    /\ Object(n).LastBlockHeight >= 1

\* The commits are one per bonded validator and each non-zero one verifies
CommitsVerified(st, commits) ==
    /\ Len(commits) = Len(st.BondedValidators)
    /\ \A i \in 1..Len(commits) : IsZero(commits[i]) \/ VerifiedCommit(st, commits, i)

\* The committed voting power is more than two thirds of the total
TwoThirds(st, commits) ==
    3 * CommittedPower(st.BondedValidators, commits, 1) > 2 * Power(st.BondedValidators, 1)

\* C1: AppendBlock of a block at height > 1 passes commit aggregation only
\* if there is one commit per validator of the prior bonded set, every
\* non-zero commit verifies under the key of the validator at its index,
\* and the voting power of those validators is strictly greater than two
\* thirds of the total voting power of the bonded set.
C1_CommitAggregation ==
    [][\A n \in Names :
          PassedAggregation(n) =>
              /\ CommitsVerified(Deref(heap, Object(n)), last'.commits)
              /\ TwoThirds(Deref(heap, Object(n)), last'.commits)]_vars

\* C2: when AppendBlock rejects a block during basic validation or commit
\* aggregation, the whole state (the block tail, the two validator sets,
\* the accounts and the validator infos) is as it was before the call.
C2_RejectedBlockLeavesState ==
    [][\A n \in Names :
          (/\ Returned("AppendBlock", n)
           /\ last'.err # ErrNil
           /\ last'.stage \in {"basic", "validation"}) => Untouched(n)]_vars

\* A block was rejected for insufficient voting power, after blocks before it
C2_Witness ==
    /\ last.op = "AppendBlock"
    /\ last.on = "state"
    /\ last.err = "Insufficient validation voting power"
    /\ state.LastBlockHeight >= 2

\* C3: whenever ExecTx returns an error, for any of the five kinds of
\* transaction, the state is not altered: the accounts, the validator
\* infos, the two validator sets and the block tail are as before the call.
C3_FailedTxLeavesState ==
    [][\A n \in Names :
          (Returned("ExecTx", n) /\ last'.err # ErrNil) => Untouched(n)]_vars

\* A BondTx was rejected after its inputs were validated: its outputs
\* exceed them
C3_Witness ==
    /\ last.op = "ExecTx"
    /\ last.kind = "BondTx"
    /\ last.err = "ErrTxInsufficientFunds"

\* The validators of the State with contents st, bonded and unbonding
Validators(st) ==
    {st.BondedValidators[i] : i \in 1..Len(st.BondedValidators)}
    \cup {st.UnbondingValidators[i] : i \in 1..Len(st.UnbondingValidators)}

\* C4: in every state reachable from a genesis state by ExecTx and
\* AppendBlock calls, no address is in both the bonded set and the
\* unbonding set.
C4_BondedUnbondingDisjoint ==
    \A n \in Names :
        ValSetAddrs(Deref(heap, Object(n)).BondedValidators)
            \cap ValSetAddrs(Deref(heap, Object(n)).UnbondingValidators) = {}

\* A validator was unbonded and rebonded while another one is unbonding
C4_Witness ==
    /\ last.op = "ExecTx"
    /\ last.kind = "RebondTx"
    /\ last.err = ErrNil
    /\ Deref(heap, copy).UnbondingValidators # <<>>
    /\ Deref(heap, copy).BondedValidators # <<>>

\* Every validator of every State has a ValidatorInfo at its address
ValidatorsHaveInfo ==
    \A n \in Names :
        \A val \in Validators(Deref(heap, Object(n))) :
            val.Address \in DOMAIN Deref(heap, Object(n)).validatorInfos

\* No call removes a ValidatorInfo from the State it is made on, and none
\* is ever removed from the State of the node
InfosKept ==
    /\ DOMAIN Deref(heap, state).validatorInfos
           \subseteq DOMAIN Deref(heap, state)'.validatorInfos
    /\ (last'.on = "copy" /\ last'.op \in {"ExecTx", "AppendBlock"}) =>
           DOMAIN Deref(heap, copy).validatorInfos
               \subseteq DOMAIN Deref(heap, copy)'.validatorInfos

\* C5: in every reachable state each validator in the bonded or the
\* unbonding set has a ValidatorInfo at its address, and no operation
\* removes a ValidatorInfo.
C5_ValidatorInfoKept == []ValidatorsHaveInfo /\ [][InfosKept]_vars

\* A validator was destroyed: it is in neither set and its ValidatorInfo
\* is still there
C5_Witness ==
    \E a \in DOMAIN Deref(heap, state).validatorInfos :
        /\ Deref(heap, state).validatorInfos[a].DestroyedHeight > 0
        /\ a \notin {val.Address : val \in Validators(Deref(heap, state))}

\* C6: in every reachable state each validator in the bonded or the
\* unbonding set has voting power > 0, the validators that an accepted
\* BondTx admitted included.
C6_VotingPowerPositive ==
    \A n \in Names :
        \A val \in Validators(Deref(heap, Object(n))) : val.VotingPower > 0

\* The sum of the balances of those accounts of the tree, as a natural number
RECURSIVE BalanceSumOf(_, _)
BalanceSumOf(tree, addrs) ==
    IF addrs = {} THEN 0
    ELSE LET a == CHOOSE x \in addrs : TRUE
         IN  tree[a].Balance + BalanceSumOf(tree, addrs \ {a})

BalanceSum(st) == BalanceSumOf(st.accounts, DOMAIN st.accounts)

\* ExecTx of a transaction of that kind on the object n has succeeded
Accepted(kind, n) ==
    Returned("ExecTx", n) /\ last'.kind = kind /\ last'.err = ErrNil

\* C7: for every successful SendTx the sum of all account balances after
\* the transaction is the sum before minus the fee, so that a SendTx never
\* increases the sum of the balances, whatever the amounts are.
C7_SendTxConserves ==
    [][\A n \in Names :
          Accepted("SendTx", n) =>
              BalanceSum(Deref(heap, Object(n)))' + last'.fee
                  = BalanceSum(Deref(heap, Object(n)))]_vars

\* The addresses of the inputs of tx
InputAddrs(tx) == {tx.Inputs[i].Address : i \in 1..Len(tx.Inputs)}

\* Every input of the accepted transaction had the sequence number that
\* follows the one of its account
SequencesChecked(n) ==
    \A i \in 1..Len(last'.tx.Inputs) :
        last'.tx.Inputs[i].Sequence
            = Deref(heap, Object(n)).accounts[last'.tx.Inputs[i].Address].Sequence + 1

\* The sequence number of every input account is one more than it was, and
\* the one of every other account is what it was
SequencesBumped(n) ==
    \A a \in DOMAIN Deref(heap, Object(n)).accounts :
        Deref(heap, Object(n))'.accounts[a].Sequence
            = Deref(heap, Object(n)).accounts[a].Sequence
              + (IF a \in InputAddrs(last'.tx) THEN 1 ELSE 0)

\* The SendTx that the object n accepted last was executed on it again
Replayed(n) ==
    /\ last.op = "ExecTx" /\ last.on = n /\ last.kind = "SendTx" /\ last.err = ErrNil
    /\ Accepted("SendTx", n)
    /\ last'.tx = last.tx

\* C8: a SendTx or BondTx is accepted only if every input has the sequence
\* number of its account plus 1, a transaction rejected for its sequence
\* number changes nothing, after a successful transaction the sequence
\* number of every input account is one more and that of every other
\* account is unchanged, and the same SendTx executed again on the
\* resulting state is rejected.
C8_SequenceGuardsReplay ==
    [][\A n \in Names :
          /\ (Accepted("SendTx", n) \/ Accepted("BondTx", n)) =>
                 SequencesChecked(n) /\ SequencesBumped(n)
          /\ (Returned("ExecTx", n) /\ last'.err = "ErrTxInvalidSequence") =>
                 Untouched(n)
          /\ ~Replayed(n)]_vars

C10_CopyThenApply ==
    [][/\ last'.op = "Copy" =>
              /\ Deref(heap, copy)' = Deref(heap, state)
              /\ Hash(Deref(heap, copy))' = Hash(Deref(heap, state))
       /\ last'.on = "copy" =>
              /\ Untouched("state")
              /\ Hash(Deref(heap, state))' = Hash(Deref(heap, state))]_vars

\* AppendBlock failed part-way on a copy that was called on before, and
\* left it with other accounts than those of the State
C10_Witness ==
    /\ Poisoned
    /\ last.on = "copy"
    /\ last.calls = 2
    /\ Deref(heap, copy).accounts # Deref(heap, state).accounts

\* AppendBlock on the object n has succeeded
Applied(n) == Returned("AppendBlock", n) /\ last'.err = ErrNil

\* The State with contents st once the transactions of the block were
\* executed, as the passes of AppendBlock after them find it
Executed(st, txs) == ExecTxs(st, txs, 1).st

\* The elements of a sequence
Range(seq) == {seq[i] : i \in 1..Len(seq)}

\* The balance of the account of that address; no account, no coins
Balance(tree, addr) == IF addr \in DOMAIN tree THEN tree[addr].Balance ELSE 0

\* What the outputs outs[i], outs[i+1], ... pay to addr, as a natural number
RECURSIVE PaidTo(_, _, _)
PaidTo(outs, addr, i) ==
    IF i > Len(outs) THEN 0
    ELSE (IF outs[i].Address = addr THEN outs[i].Amount ELSE 0)
         + PaidTo(outs, addr, i + 1)

\* What the unbond_to outputs of the validators vals[i], vals[i+1], ... of
\* st pay to addr
RECURSIVE ReleasedTo(_, _, _, _)
ReleasedTo(st, vals, addr, i) ==
    IF i > Len(vals) THEN 0
    ELSE PaidTo(st.validatorInfos[vals[i].Address].UnbondTo, addr, 1)
         + ReleasedTo(st, vals, addr, i + 1)

\* The unbonding validators of st that a block of that height finds k or
\* more blocks after their unbond_height
Due(st, height, k) ==
    SelectSeq(st.UnbondingValidators, LAMBDA val : height >= val.UnbondHeight + k)

\* A block took the State from st (its transactions executed) to after:
\* every unbonding validator less than k blocks after its unbond_height is
\* still unbonding, as it was; every other one is in neither set, has the
\* height of the block as its released_height, and the balance of every
\* account is what it was plus the unbond_to outputs of the validators
\* released, added as AdjustByOutputs adds them (uint64 addition)
ReleasedAfter(st, after, k) ==
    /\ \A val \in Range(st.UnbondingValidators) :
           IF after.LastBlockHeight < val.UnbondHeight + k
               THEN val \in Range(after.UnbondingValidators)
           ELSE /\ val.Address \notin ValSetAddrs(after.UnbondingValidators)
                /\ val.Address \notin ValSetAddrs(after.BondedValidators)
                /\ after.validatorInfos[val.Address].ReleasedHeight
                       = after.LastBlockHeight
    /\ \A addr \in DOMAIN after.accounts :
           after.accounts[addr].Balance
               = UAdd(Balance(st.accounts, addr),
                      ReleasedTo(st, Due(st, after.LastBlockHeight, k), addr, 1))

Committed(st, commits, txs) ==
    UpdateLastCommitHeight(Executed(st, txs), NextBlock(st, commits, txs), 1).st

\* The validators of st bonded at height 1 of which no commit was recorded
NeverSigned(st) ==
    {val \in Range(st.BondedValidators) :
        val.BondHeight = 1 /\ val.LastCommitHeight = 0}

\* A block took the State from st (its transactions executed, its commits
\* recorded) to after: every validator bonded at height 1 of which no commit
\* was recorded is still bonded when the block is below height k, and was
\* moved to unbonding by the block otherwise
TimedOutAfter(st, after, k) ==
    \A val \in NeverSigned(st) :
        IF after.LastBlockHeight < k
            THEN /\ ValSetHas(after.BondedValidators, val.Address)
                 /\ ~ValSetHas(after.UnbondingValidators, val.Address)
        ELSE /\ ~ValSetHas(after.BondedValidators, val.Address)
             /\ [val EXCEPT !.UnbondHeight = after.LastBlockHeight]
                    \in Range(after.UnbondingValidators)

\* C12: a validator bonded at height 1 whose commit is never
\* included (last_commit_height stays 0) is still bonded after every block
\* below height 1 + VALIDATOR_TIMEOUT + 1, and the block at height
\* 1 + VALIDATOR_TIMEOUT + 1 moves it from bonded to unbonding.
C12_TimeoutAfterBond ==
    [][\A n \in Names :
          Applied(n) =>
              TimedOutAfter(Committed(Deref(heap, Object(n)), last'.commits,
                                      last'.txs),
                            Deref(heap, Object(n))', 1 + validatorTimeoutBlocks + 1)]_vars

\* A block with those commits took the State from st, through mid (its
\* transactions executed), to after: every validator of st whose commit is
\* in the block, and that the transactions left bonded, is bonded after it
CommitKeepsBonded(st, commits, mid, after) ==
    \A i \in 1..Len(commits) :
        (/\ ~IsZero(commits[i])
         /\ i <= Len(st.BondedValidators)
         /\ ValSetHas(mid.BondedValidators, st.BondedValidators[i].Address))
            => ValSetHas(after.BondedValidators, st.BondedValidators[i].Address)

\* C13: a bonded validator whose valid non-zero commit is included in a
\* block is not moved to unbonding by the timeout pass of that block,
\* whatever validators the transactions of the block bond, unbond or
\* destroy.
C13_CommitPreventsTimeout ==
    [][\A n \in Names :
          Applied(n) =>
              CommitKeepsBonded(Deref(heap, Object(n)), last'.commits,
                                Executed(Deref(heap, Object(n)), last'.txs),
                                Deref(heap, Object(n))')]_vars

\* The two votes of tx are signed by val, of the same height, and either
\* vote_a is a commit of a lower round than vote_b, or they are of the same
\* round and type and of different block hashes
Equivocation(val, tx) ==
    /\ VerifyBytes(val.PubKey, VoteSignBytes(tx.VoteA), tx.VoteA.Signature)
    /\ VerifyBytes(val.PubKey, VoteSignBytes(tx.VoteB), tx.VoteB.Signature)
    /\ tx.VoteA.Height = tx.VoteB.Height
    /\ \/ tx.VoteA.Type = VoteTypeCommit /\ tx.VoteA.Round < tx.VoteB.Round
       \/ /\ tx.VoteA.Round = tx.VoteB.Round
          /\ tx.VoteA.Type = tx.VoteB.Type
          /\ tx.VoteA.BlockHash # tx.VoteB.BlockHash

\* ExecTx took the State from st to after and destroyed val: val is out of
\* the bonded set, whose voting power is less by the power of val, its
\* ValidatorInfo has the next height and the power of val, and every
\* account is as it was
Destroyed(st, after, val) ==
    /\ after.BondedValidators = ValSetRemove(st.BondedValidators, val.Address)
    /\ Power(after.BondedValidators, 1)
           = Power(st.BondedValidators, 1) - val.VotingPower
    /\ after.validatorInfos[val.Address].DestroyedHeight = st.LastBlockHeight + 1
    /\ after.validatorInfos[val.Address].DestroyedAmount = val.VotingPower
    /\ after.accounts = st.accounts

\* ExecTx(tx) on st, with val the bonded validator tx accuses, returned r
DupeoutChecked(st, tx, val, r) ==
    /\ r.err = ErrNil <=> Equivocation(val, tx)
    /\ r.err = ErrNil => Destroyed(st, r.st, val)

\* C14, for every DupeoutTx that ExecTx is called with on a copy of the
\* State: ExecTx accepts a DupeoutTx against a bonded validator exactly when
\* both votes are validly signed by the accused, are of the same height,
\* and either vote_a is a commit with vote_a.round < vote_b.round, or the
\* votes are of the same round and type and of different block hashes; an
\* accepted DupeoutTx removes the validator from bonded (the total voting
\* power drops by its power), sets destroyed_height = last_block_height + 1
\* and destroyed_amount = its voting power in its ValidatorInfo, and
\* changes no account balance.
C14_DupeoutExactly ==
    Copied =>
        \A tx \in DupeoutTxs :
            ValSetHas(Deref(heap, copy).BondedValidators, tx.Address) =>
                DupeoutChecked(Deref(heap, copy), tx,
                               ValSetGetByAddress(Deref(heap, copy).BondedValidators,
                                                  tx.Address),
                               ExecTx(Deref(heap, copy), tx))

\* A DupeoutTx was accepted for a commit of round 0 and a vote of round 1
\* for the same block hash: validator 1 is destroyed at the next height
C14_Witness ==
    /\ last.op = "ExecTx"
    /\ last.kind = "DupeoutTx"
    /\ last.err = ErrNil
    /\ last.tx.VoteA.Type = VoteTypeCommit
    /\ last.tx.VoteA.Round < last.tx.VoteB.Round
    /\ last.tx.VoteA.BlockHash = last.tx.VoteB.BlockHash
    /\ ~ValSetHas(Deref(heap, copy).BondedValidators, 1)
    /\ Deref(heap, copy).validatorInfos[1].DestroyedHeight = copy.LastBlockHeight + 1
    /\ Deref(heap, copy).validatorInfos[1].DestroyedAmount = 2

\* ExecTx on st returned r: an error that is no panic, and st as it was
Rejected(st, r) == r.err # ErrNil /\ ~IsPanic(r.err) /\ r.st = st

\* C15, for every DupeoutTx that ExecTx is called with on a copy of the
\* State: a DupeoutTx whose address is not in the bonded set is an invalid
\* transaction: ExecTx returns an error to the caller, the node is not
\* aborted, and the state is unchanged.
C15_DupeoutUnknownRejected ==
    Copied =>
        \A tx \in DupeoutTxs :
            ~ValSetHas(Deref(heap, copy).BondedValidators, tx.Address) =>
                Rejected(Deref(heap, copy), ExecTx(Deref(heap, copy), tx))

\* A block with those commits took the State from st to mid by its
\* transactions: for every commit of the block that is not zero, the
\* validator at its index in the bonded set of mid, the one whose
\* last_commit_height is set, is the validator at its index in the bonded
\* set of st, the one whose signature was verified
SameValidator(st, commits, mid) ==
    \A i \in 1..Len(commits) :
        ~IsZero(commits[i]) =>
            /\ i <= Len(st.BondedValidators)
            /\ i <= Len(mid.BondedValidators)
            /\ mid.BondedValidators[i].Address = st.BondedValidators[i].Address

\* C16: for every non-zero commits[i] of an accepted block, the validator
\* whose last_commit_height is set to B.height - 1 is the validator whose
\* signature was verified for commits[i], and AppendBlock never ends in
\* the fatal "Failed to fetch validator at index", also when the
\* transactions of the block add validators to bonded or remove them from
\* it between the two steps.
C16_CommitUpdatesVerified ==
    [][\A n \in Names :
          Returned("AppendBlock", n) =>
              /\ last'.err # "panic: Failed to fetch validator at index"
              /\ last'.err = ErrNil =>
                     SameValidator(Deref(heap, Object(n)), last'.commits,
                                   Executed(Deref(heap, Object(n)), last'.txs))]_vars

\* The fatal paths of releaseValidator
ReleasePanics ==
    {"panic: Couldn't find validatorInfo for release",
     "panic: Couldn't get or make unbondTo accounts",
     "panic: Couldn't remove validator for release"}

\* A block took the State from st (its transactions executed) to after:
\* every account has what it had plus the unbond_to outputs of the
\* validators whose unbonding period is over
Credited(st, after) ==
    \A addr \in DOMAIN after.accounts :
        after.accounts[addr].Balance
            = UAdd(Balance(st.accounts, addr),
                   ReleasedTo(st, ToRelease(st, [Height |-> after.LastBlockHeight]),
                              addr, 1))

\* C17: every validator that an accepted BondTx admitted, whatever its
\* unbond_to list (a list that names the same address twice included), is
\* released by AppendBlock once its unbonding period is over without
\* reaching a fatal path of the release, and the release credits every
\* unbond_to output to its account.
C17_ReleaseNeverFatal ==
    [][\A n \in Names :
          Returned("AppendBlock", n) =>
              /\ last'.err \notin ReleasePanics
              /\ last'.err = ErrNil =>
                     Credited(Executed(Deref(heap, Object(n)), last'.txs),
                              Deref(heap, Object(n))')]_vars

\* st has a ValidatorInfo for that address that is released or destroyed,
\* and the validator is in neither set
Gone(st, addr) ==
    /\ addr \in DOMAIN st.validatorInfos
    /\ \/ st.validatorInfos[addr].ReleasedHeight # 0
       \/ st.validatorInfos[addr].DestroyedHeight # 0
    /\ ~ValSetHas(st.BondedValidators, addr)
    /\ ~ValSetHas(st.UnbondingValidators, addr)

\* C18: an address becomes a validator at most once.  Every BondTx that
\* ExecTx is called with on a copy of the State, and whose pub_key has an
\* entry in validator_infos, is rejected with the state unchanged; and on
\* each State object, as long as the caller holds it, a validator that
\* was released or destroyed and is in neither set is released or
\* destroyed and in neither set after every call.
C18_BondOnce ==
    [][/\ Copied =>
              \A tx \in BondTxs :
                  Address(tx.PubKey) \in DOMAIN Deref(heap, copy).validatorInfos =>
                      Rejected(Deref(heap, copy), ExecTx(Deref(heap, copy), tx))
       /\ \A n \in Names, addr \in Addrs :
              (/\ n = "copy" => last'.op \in {"ExecTx", "AppendBlock"}
               /\ Gone(Deref(heap, Object(n)), addr))
                  => Gone(Deref(heap, Object(n))', addr)]_vars

\* Validator 1 was destroyed by the DupeoutTx of a block; ExecTx on a copy
\* of the State has rejected a BondTx of its key, and it is in neither set
C18_Witness ==
    /\ last.op = "ExecTx"
    /\ last.on = "copy"
    /\ last.kind = "BondTx"
    /\ last.err = "Adding coins to existing validators not yet supported"
    /\ Deref(heap, state).validatorInfos[1].DestroyedHeight # 0
    /\ Deref(heap, copy) = Deref(heap, state)
    /\ Gone(Deref(heap, copy), 1)

\* ExecTx took the State from st to after by moving val out of the set
\* from into the set to as moved: every other validator of both sets,
\* every account, every ValidatorInfo and the last block are as they were
MovedOnly(st, after, from, to, val, moved) ==
    /\ val \in Range(st[from])
    /\ Range(after[from]) = Range(st[from]) \ {val}
    /\ Range(after[to]) = Range(st[to]) \cup {moved}
    /\ Len(after[from]) = Len(st[from]) - 1
    /\ Len(after[to]) = Len(st[to]) + 1
    /\ after.accounts = st.accounts
    /\ after.validatorInfos = st.validatorInfos
    /\ after.LastBlockHeight = st.LastBlockHeight
    /\ after.LastBlockHash = st.LastBlockHash

\* The UnbondTx tx took the State from st to after
Unbonded(st, tx, after) ==
    /\ ValSetHas(st.BondedValidators, tx.Address)
    /\ LET val == ValSetGetByAddress(st.BondedValidators, tx.Address)
       IN  /\ VerifyBytes(val.PubKey, SignBytes(tx), tx.Signature)
           /\ tx.Height > val.LastCommitHeight
           /\ MovedOnly(st, after, "BondedValidators", "UnbondingValidators", val,
                        [val EXCEPT !.UnbondHeight = st.LastBlockHeight + 1])

\* The RebondTx tx took the State from st to after
Rebonded(st, tx, after) ==
    /\ ValSetHas(st.UnbondingValidators, tx.Address)
    /\ LET val == ValSetGetByAddress(st.UnbondingValidators, tx.Address)
       IN  /\ VerifyBytes(val.PubKey, SignBytes(tx), tx.Signature)
           /\ tx.Height = st.LastBlockHeight + 1
           /\ MovedOnly(st, after, "UnbondingValidators", "BondedValidators", val,
                        [val EXCEPT !.BondHeight = st.LastBlockHeight + 1])

\* C19, for every UnbondTx and RebondTx that ExecTx is called with on a
\* copy of the State: an UnbondTx succeeds only for a validator in bonded
\* with a valid signature and tx.height > val.last_commit_height, and then
\* moves it to unbonding with unbond_height = last_block_height + 1; a
\* RebondTx succeeds only for a validator in unbonding with a valid
\* signature and tx.height = last_block_height + 1, and then moves it back
\* to bonded with bond_height = last_block_height + 1; each move changes
\* no other validator, no account and no ValidatorInfo.
C19_UnbondRebond ==
    Copied =>
        /\ \A tx \in UnbondTxs :
               ExecTx(Deref(heap, copy), tx).err = ErrNil =>
                   Unbonded(Deref(heap, copy), tx, ExecTx(Deref(heap, copy), tx).st)
        /\ \A tx \in RebondTxs :
               ExecTx(Deref(heap, copy), tx).err = ErrNil =>
                   Rebonded(Deref(heap, copy), tx, ExecTx(Deref(heap, copy), tx).st)

\* The UnbondTx of the first block moved validator 2 to unbonding, and
\* ExecTx on a copy of the State has accepted the RebondTx that moved it
\* back to bonded
C19_Witness ==
    /\ last.op = "ExecTx"
    /\ last.on = "copy"
    /\ last.kind = "RebondTx"
    /\ last.err = ErrNil
    /\ last.tx.Height = 2
    /\ state.LastBlockHeight = 1
    /\ \E val \in Range(Deref(heap, state).UnbondingValidators) :
           /\ val.Address = 2
           /\ val.UnbondHeight = 1
           /\ [val EXCEPT !.BondHeight = 2] \in Range(Deref(heap, copy).BondedValidators)
    /\ ~ValSetHas(Deref(heap, copy).UnbondingValidators, 2)

\* A block took the State from st, through mid (its transactions
\* executed), to after: every validator that a BondTx or a RebondTx of the
\* block put into the bonded set is bonded after the block
BondedStays(st, mid, after) ==
    \A val \in Range(mid.BondedValidators) :
        (/\ val.BondHeight = st.LastBlockHeight + 1
         /\ ~ValSetHas(st.BondedValidators, val.Address))
            => ValSetHas(after.BondedValidators, val.Address)

\* C20: a validator put into bonded by a BondTx or a RebondTx in the block
\* at height h is still in bonded when AppendBlock of that block completes
\* successfully, for every height h: the timeout pass never moves a
\* validator to unbonding in the block that bonds or rebonds it.
C20_BondedSurvivesBlock ==
    [][\A n \in Names :
          Applied(n) =>
              BondedStays(Deref(heap, Object(n)),
                          Executed(Deref(heap, Object(n)), last'.txs),
                          Deref(heap, Object(n))')]_vars

\* The coins of st: the balances of all accounts and the voting power of
\* all validators, bonded and unbonding, as a natural number
Coins(st) ==
    BalanceSum(st) + Power(st.BondedValidators, 1) + Power(st.UnbondingValidators, 1)

\* C21: no coins are minted.  Over every successful AppendBlock the total
\* of all account balances plus the voting power of all validators in
\* bonded and unbonding does not increase, whatever the transactions of
\* the block move, release or destroy.
C21_NoCoinsMinted ==
    [][\A n \in Names :
          Applied(n) =>
              Coins(Deref(heap, Object(n)))' <= Coins(Deref(heap, Object(n)))]_vars

\* Alert has returned
AlertReturned == sent'.calls = sent.calls + 1

\* The call of Alert that has returned was made within the interval after
\* the last notification
WithinInterval == sent.at >= 0 /\ clock - sent.at <= Config.MinInterval

\* The notification tells how many calls sent nothing since the one before
ReportsCount(out, n) ==
    LET tail == " (+" \o ToString(n) \o " more since)"
        Ends(str) == /\ Len(str) >= Len(tail)
                     /\ SubSeq(str, Len(str) - Len(tail) + 1, Len(str)) = tail
    IN  /\ out.sms # Silent.sms => Ends(out.sms)
        /\ out.email # Silent.email => Ends(out.email.body)

\* C22: over any sequence of Alert calls, a notification (SMS or email)
\* goes out only when more than Config.Alert.MinInterval seconds have
\* passed since the last call that sent one; a call inside that interval
\* sends nothing and is counted, and the next notification reports the
\* number of calls that sent nothing and resets the count.
C22_AlertRateLimited ==
    [][AlertReturned =>
          /\ WithinInterval =>
                 /\ ~Notified(sent')
                 /\ alertCountSince' = alertCountSince + 1
          /\ (Notified(sent') /\ sent.since > 0) =>
                 /\ ReportsCount(sent', sent.since)
                 /\ alertCountSince' = 0]_alertVars

====
